---- MODULE Spec2Model ----
(***************************************************************************)
(* Model of the readiness check of src/App.tsx: the React component App,   *)
(* its state (useState), its refs (useRef), the sampling effect            *)
(* (useEffect, lines 199-214), the handlers startCheck, resetCheck and     *)
(* onCameraReady, and the asynchronous analyzeFrame with its two           *)
(* suspension points (takePictureAsync, FaceDetection.detect).             *)
(*                                                                         *)
(* React semantics used: the state updates of one handler (or of one       *)
(* continuation of analyzeFrame) are committed together, and the render    *)
(* and the effect cleanup/re-run that follow are part of the same step:    *)
(* no timer callback runs between a state update and the effect that       *)
(* reacts to it.  A closure (analyzeFrame, the timer callbacks) reads the  *)
(* state values of the render that created it; refs are read live.         *)
(*                                                                         *)
(* Units: ratios and probabilities are in hundredths, angles in degrees,   *)
(* frame geometry in pixels, time in milliseconds.                         *)
(***************************************************************************)
EXTENDS Integers, Sequences, FiniteSets, Bags

(* ---- bounds of the model ---- *)

\* number of analyzeFrame invocations that may be suspended at the same time
MaxInFlight == 3

\* granularity of the clock, in milliseconds
TickMs == 500

(* ---- program constants ---- *)

StartDelayMs == 1000

ReadyStreak == 2

THRESHOLDS ==
    [ CENTER_TOLERANCE     |-> 22,
      HEAD_YAW_LIMIT       |-> 18,
      HEAD_ROLL_LIMIT      |-> 15,
      EYE_OPEN_THRESHOLD   |-> 40,
      EXPRESSION_THRESHOLD |-> 12,
      MIN_FACE_SIZE        |-> 15,
      MAX_FACE_SIZE        |-> 80 ]

\* the literal 0.1 added to CENTER_TOLERANCE for the vertical offset
VerticalSlack == 10

\* default of an absent eye-open probability (0.8)
DefaultEyeOpen == 80

\* smile probability above which the detail is 'Great energy!' (0.5)
GreatEnergy == 50

(* ---- checklist ---- *)

InitialChecklist ==
    << [id |-> "face",         status |-> "checking", detail |-> "Looking..."],
       [id |-> "framing",      status |-> "checking", detail |-> "Checking..."],
       [id |-> "eyeContact",   status |-> "checking", detail |-> "Checking..."],
       [id |-> "expression",   status |-> "checking", detail |-> "Checking..."],
       [id |-> "headPosition", status |-> "checking", detail |-> "Checking..."] >>

\* { ...item, status, detail }
WithResult(item, st, dt) == [item EXCEPT !.status = st, !.detail = dt]

\* checklist.filter(i => i.status === 'pass').length
passedCount(cl) == Cardinality({i \in 1..Len(cl) : cl[i].status = "pass"})

(* ---- optional fields of a detected face: <<>> is absent, <<v>> is v ---- *)

None == << >>

Some(v) == << v >>

\* mutant of Coalesce: an absent field counts as 0
CoalesceZero(a, b) == IF a # None THEN a[1] ELSE 0

\* a ?? b
Coalesce(a, b) == IF a # None THEN a[1] ELSE b

Abs(x) == IF x < 0 THEN 0 - x ELSE x

(* ---- the evaluation of one detection result (analyzeFrame 112-177) ---- *)

\* offX < CENTER_TOLERANCE && offY < CENTER_TOLERANCE + 0.1, with
\* offX = |(left + width/2)/photo.width - 0.5|, cleared of denominators
Centered(face, photo) ==
    /\ 100 * Abs(2 * face.frame.left + face.frame.width - photo.width)
          < 2 * photo.width * THRESHOLDS.CENTER_TOLERANCE
    /\ 100 * Abs(2 * face.frame.top + face.frame.height - photo.height)
          < 2 * photo.height * (THRESHOLDS.CENTER_TOLERANCE + VerticalSlack)

\* mutant of GoodSize: both size bounds exclusive
GoodSizeExclusive(face, photo) ==
    /\ 100 * face.frame.width > THRESHOLDS.MIN_FACE_SIZE * photo.width
    /\ 100 * face.frame.width < THRESHOLDS.MAX_FACE_SIZE * photo.width

\* faceWidthRatio >= MIN_FACE_SIZE && faceWidthRatio <= MAX_FACE_SIZE
GoodSize(face, photo) ==
    /\ 100 * face.frame.width >= THRESHOLDS.MIN_FACE_SIZE * photo.width
    /\ 100 * face.frame.width <= THRESHOLDS.MAX_FACE_SIZE * photo.width

\* mutant of FramingHint: the size hints come first
FramingHintSizeFirst(face, photo) ==
    LET dx == 2 * face.frame.left + face.frame.width - photo.width
        dy == 2 * face.frame.top + face.frame.height - photo.height
    IN  IF 100 * face.frame.width < THRESHOLDS.MIN_FACE_SIZE * photo.width
        THEN "Move closer"
        ELSE IF 100 * face.frame.width > THRESHOLDS.MAX_FACE_SIZE * photo.width
        THEN "Move back"
        ELSE IF Abs(dx) * photo.height > Abs(dy) * photo.width
             THEN (IF dx < 0 THEN "Move right" ELSE "Move left")
             ELSE (IF dy < 0 THEN "Move down" ELSE "Move up")

\* the hint of a failed framing check
FramingHint(face, photo) ==
    LET dx == 2 * face.frame.left + face.frame.width - photo.width
        dy == 2 * face.frame.top + face.frame.height - photo.height
    IN  IF ~Centered(face, photo)
        THEN IF Abs(dx) * photo.height > Abs(dy) * photo.width
             THEN (IF dx < 0 THEN "Move right" ELSE "Move left")
             ELSE (IF dy < 0 THEN "Move down" ELSE "Move up")
        ELSE IF 100 * face.frame.width < THRESHOLDS.MIN_FACE_SIZE * photo.width
             THEN "Move closer"
             ELSE "Move back"

FramingResult(item, face, photo) ==
    IF Centered(face, photo) /\ GoodSize(face, photo)
    THEN WithResult(item, "pass", "Perfect")
    ELSE WithResult(item, "fail", FramingHint(face, photo))

EyesOk(face) ==
    /\ Coalesce(face.leftEyeOpenProbability, DefaultEyeOpen) > THRESHOLDS.EYE_OPEN_THRESHOLD
    /\ Coalesce(face.rightEyeOpenProbability, DefaultEyeOpen) > THRESHOLDS.EYE_OPEN_THRESHOLD

LookingOk(face) ==
    Abs(Coalesce(face.headEulerAngleY, Coalesce(face.yawAngle, 0))) < THRESHOLDS.HEAD_YAW_LIMIT

\* mutant of EyeContactResult: the yaw hint comes first
EyeContactLookFirst(item, face) ==
    IF EyesOk(face) /\ LookingOk(face)
    THEN WithResult(item, "pass", "Great!")
    ELSE WithResult(item, "fail", IF ~LookingOk(face) THEN "Look at camera" ELSE "Open eyes")

EyeContactResult(item, face) ==
    IF EyesOk(face) /\ LookingOk(face)
    THEN WithResult(item, "pass", "Great!")
    ELSE WithResult(item, "fail", IF ~EyesOk(face) THEN "Open eyes" ELSE "Look at camera")

ExpressionResult(item, face) ==
    LET smileProb == Coalesce(face.smilingProbability, 0)
    IN  IF smileProb > THRESHOLDS.EXPRESSION_THRESHOLD
        THEN WithResult(item, "pass", IF smileProb > GreatEnergy THEN "Great energy!" ELSE "Engaged")
        ELSE WithResult(item, "fail", "Smile a bit")

HeadPositionResult(item, face) ==
    IF Abs(Coalesce(face.headEulerAngleZ, Coalesce(face.rollAngle, 0))) < THRESHOLDS.HEAD_ROLL_LIMIT
    THEN WithResult(item, "pass", "Good")
    ELSE WithResult(item, "fail", "Straighten head")

\* mutant of NewChecklist: without a face the other entries are carried over
NewChecklistCarryOver(cl, faces, photo) ==
    IF Len(faces) > 0
    THEN LET face == faces[1]
         IN  << WithResult(cl[1], "pass", "Visible"),
                FramingResult(cl[2], face, photo),
                EyeContactResult(cl[3], face),
                ExpressionResult(cl[4], face),
                HeadPositionResult(cl[5], face) >>
    ELSE [i \in 1..5 |-> IF i = 1 THEN WithResult(cl[1], "fail", "Not found") ELSE cl[i]]

\* mutant of NewChecklist: a face is recognised only when it is the only one
NewChecklistOneFace(cl, faces, photo) ==
    IF Len(faces) = 1
    THEN LET face == faces[1]
         IN  << WithResult(cl[1], "pass", "Visible"),
                FramingResult(cl[2], face, photo),
                EyeContactResult(cl[3], face),
                ExpressionResult(cl[4], face),
                HeadPositionResult(cl[5], face) >>
    ELSE [i \in 1..5 |-> IF i = 1 THEN WithResult(cl[1], "fail", "Not found")
                                  ELSE WithResult(cl[i], "checking", "Need face")]

\* newChecklist after lines 112-177: cl is the checklist of the closure
NewChecklist(cl, faces, photo) ==
    IF Len(faces) > 0
    THEN LET face == faces[1]
         IN  << WithResult(cl[1], "pass", "Visible"),
                FramingResult(cl[2], face, photo),
                EyeContactResult(cl[3], face),
                ExpressionResult(cl[4], face),
                HeadPositionResult(cl[5], face) >>
    ELSE [i \in 1..5 |-> IF i = 1 THEN WithResult(cl[1], "fail", "Not found")
                                  ELSE WithResult(cl[i], "checking", "Need face")]

\* the local passCount after lines 113-177: one increment per passing branch
PassCount(faces, photo) ==
    IF Len(faces) > 0
    THEN LET face == faces[1]
         IN  1
             + (IF Centered(face, photo) /\ GoodSize(face, photo) THEN 1 ELSE 0)
             + (IF EyesOk(face) /\ LookingOk(face) THEN 1 ELSE 0)
             + (IF Coalesce(face.smilingProbability, 0) > THRESHOLDS.EXPRESSION_THRESHOLD THEN 1 ELSE 0)
             + (IF Abs(Coalesce(face.headEulerAngleZ, Coalesce(face.rollAngle, 0))) < THRESHOLDS.HEAD_ROLL_LIMIT
                THEN 1 ELSE 0)
    ELSE 0

RECURSIVE TrailingRun(_)
\* the number of TRUE entries at the end of a sequence of booleans
TrailingRun(h) ==
    IF h = << >> \/ ~h[Len(h)] THEN 0 ELSE 1 + TrailingRun(SubSeq(h, 1, Len(h) - 1))

(* ---- the inputs: photos and detection results ---- *)

Photo == [uri |-> "file", width |-> 1000, height |-> 1000]

\* Scenario A of the specification: centred, width ratio 0.3, smiling
FaceA ==
    [ frame |-> [left |-> 350, top |-> 350, width |-> 300, height |-> 300],
      headEulerAngleY |-> None, yawAngle |-> Some(0),
      headEulerAngleZ |-> None, rollAngle |-> Some(0),
      smilingProbability |-> Some(60),
      leftEyeOpenProbability |-> Some(90), rightEyeOpenProbability |-> Some(90) ]

\* Scenario C: centred, width ratio 0.05
FaceC == [FaceA EXCEPT !.frame = [left |-> 475, top |-> 350, width |-> 50, height |-> 300]]

\* what FaceDetection.detect may resolve to
DetectResults == { << >>, << FaceA >>, << FaceC >> }

(* ---- state ---- *)

VARIABLES
    mounted,            \* the component is mounted (cameraRef.current is non-null)
    isReady,            \* useState, line 42: a session has been started
    cameraReady,        \* useState, line 43
    allChecksPassed,    \* useState, line 44: the ready flag
    passStreak,         \* useState, line 45
    checklist,          \* useState, line 47
    isCapturing,        \* useRef, line 56: the in-flight flag
    intervalRef,        \* useRef, line 57: Null or the id of an interval
    startDelay,         \* the timeout of the current effect (line 202)
    intervals,          \* the armed intervals (line 203), each with its callback
    inflight,           \* the suspended invocations of analyzeFrame (a bag)
    recent,             \* history: outcomes of the last cycles of this session
    sessionClean,       \* history: no invocation was suspended when the session started
    sinceStart,         \* history: time since startCheck, capped at StartDelayMs
    cameraReadyAtStart, \* history: cameraReady at the time of startCheck
    lastApplied,        \* history: the detection result that was applied last
    lastFailure,        \* history: how an invocation failed, if the last step was a failure
    steady              \* environment: from now on every capture and detection succeeds

vars == << mounted, isReady, cameraReady, allChecksPassed, passStreak, checklist,
           isCapturing, intervalRef, startDelay, intervals, inflight,
           recent, sessionClean, sinceStart, cameraReadyAtStart, lastApplied, lastFailure, steady >>

appState == << isReady, cameraReady, allChecksPassed, passStreak, checklist >>

history == << recent, sessionClean, sinceStart, cameraReadyAtStart >>

Null == 0

\* ids handed out by setInterval: an id is never that of an armed interval,
\* nor the one still held in intervalRef
TimerIds == 1..3

\* the values analyzeFrame closes over (useCallback, line 196)
Closure(cl, passed, camReady) ==
    [checklist |-> cl, allChecksPassed |-> passed, cameraReady |-> camReady]

NoTimeout == [armed |-> FALSE, left |-> 0, cb |-> Closure(InitialChecklist, FALSE, FALSE)]

\* a suspended invocation: where it waits, the checklist its closure holds,
\* and (history) whether resetCheck ran since it started
Cycle(stage, cl, stale) == [stage |-> stage, checklist |-> cl, stale |-> stale]

One(c) == SetToBag({c})

InFlight == BagCardinality(inflight)

\* every suspended invocation marked as begun before a reset
MarkStale(b) ==
    LET marked == {[c EXCEPT !.stale = TRUE] : c \in BagToSet(b)}
    IN  [d \in marked |-> CopiesIn(d, b) + CopiesIn([d EXCEPT !.stale = FALSE], b)]

\* the faces of the detection that set the checklist, if one did
Applied(faces) == [any |-> TRUE, faces |-> faces]

NothingApplied == [any |-> FALSE, faces |-> << >>]

\* the failures of an invocation: takePictureAsync resolves without a uri or
\* rejects, FaceDetection.detect rejects
Failures == {"nouri", "throw", "detectThrew"}

NewTimerId == CHOOSE i \in TimerIds : i # intervalRef /\ \A t \in intervals : t.id # i

Init ==
    /\ mounted = TRUE
    /\ isReady = FALSE
    /\ cameraReady = FALSE
    /\ allChecksPassed = FALSE
    /\ passStreak = 0
    /\ checklist = InitialChecklist
    /\ isCapturing = FALSE
    /\ intervalRef = Null
    /\ startDelay = NoTimeout
    /\ intervals = {}
    /\ inflight = EmptyBag
    /\ recent = << >>
    /\ sessionClean = TRUE
    /\ sinceStart = 0
    /\ cameraReadyAtStart = FALSE
    /\ lastApplied = NothingApplied
    /\ lastFailure = "none"
    /\ steady = FALSE

(* ---- the sampling effect (lines 199-214) ---- *)

\* mutant of ClearInterval: the interval is left armed
KeepInterval(ref, ivs) == ivs

\* if (intervalRef.current) clearInterval(intervalRef.current)
ClearInterval(ref, ivs) == IF ref # Null THEN {t \in ivs : t.id # ref} ELSE ivs

\* mutant of ArmStartDelay: the effect does not test isReady
ArmWhileIdle(ready, camReady, passed, cl) ==
    IF camReady /\ ~passed
    THEN [armed |-> TRUE, left |-> StartDelayMs, cb |-> Closure(cl, passed, camReady)]
    ELSE NoTimeout

\* mutant of ArmStartDelay: the timeout is armed with no delay
ArmNoDelay(ready, camReady, passed, cl) ==
    IF ready /\ camReady /\ ~passed
    THEN [armed |-> TRUE, left |-> 0, cb |-> Closure(cl, passed, camReady)]
    ELSE NoTimeout

\* the timeout the effect arms for the rendered state, if any
ArmStartDelay(ready, camReady, passed, cl) ==
    IF ready /\ camReady /\ ~passed
    THEN [armed |-> TRUE, left |-> StartDelayMs, cb |-> Closure(cl, passed, camReady)]
    ELSE NoTimeout

\* a render with changed dependencies: the cleanup of the previous effect
\* (clearTimeout, clearInterval), then the effect for the new state
RunEffect(ref, ivs) ==
    /\ intervals' = ClearInterval(ref, ivs)
    /\ startDelay' = ArmStartDelay(isReady', cameraReady', allChecksPassed', checklist')

(* ---- handlers ---- *)

\* lines 216-220
startCheck ==
    /\ isReady' = TRUE
    /\ allChecksPassed' = FALSE
    /\ passStreak' = 0
    /\ UNCHANGED << cameraReady, checklist, isCapturing, intervalRef, inflight, mounted >>
    /\ RunEffect(intervalRef, intervals)
    /\ recent' = << >>
    /\ sessionClean' = (InFlight = 0)
    /\ sinceStart' = 0
    /\ cameraReadyAtStart' = cameraReady
    /\ lastFailure' = "none"
    /\ UNCHANGED << lastApplied, steady >>

\* lines 222-238
resetCheck ==
    /\ isReady' = FALSE
    /\ allChecksPassed' = FALSE
    /\ passStreak' = 0
    /\ isCapturing' = FALSE
    /\ intervalRef' = Null
    /\ checklist' = InitialChecklist
    /\ UNCHANGED << cameraReady, mounted >>
    /\ RunEffect(Null, ClearInterval(intervalRef, intervals))
    /\ inflight' = MarkStale(inflight)
    /\ recent' = << >>
    /\ sessionClean' = TRUE
    /\ sinceStart' = 0
    /\ cameraReadyAtStart' = FALSE
    /\ lastApplied' = NothingApplied
    /\ lastFailure' = "none"
    /\ UNCHANGED steady

\* the Start button is rendered only while !isReady (lines 335-336)
PressStart == mounted /\ ~isReady /\ startCheck

\* the Stop and Again buttons are rendered only while isReady (lines 337-341)
PressReset == mounted /\ isReady /\ resetCheck

\* lines 241-243; setting a state to the value it has renders nothing
onCameraReady ==
    /\ mounted
    /\ cameraReady' = TRUE
    /\ UNCHANGED << isReady, allChecksPassed, passStreak, checklist, isCapturing,
                    intervalRef, inflight, mounted, history, lastApplied, steady >>
    /\ lastFailure' = "none"
    /\ IF cameraReady
       THEN UNCHANGED << intervals, startDelay >>
       ELSE RunEffect(intervalRef, intervals)

\* the component is unmounted: the cleanup of the effect runs
Unmount ==
    /\ mounted
    /\ mounted' = FALSE
    /\ intervals' = ClearInterval(intervalRef, intervals)
    /\ startDelay' = NoTimeout
    /\ lastFailure' = "none"
    /\ UNCHANGED << appState, isCapturing, intervalRef, inflight, history, lastApplied, steady >>

(* ---- timers ---- *)

\* time passes
Tick ==
    /\ mounted
    /\ \/ startDelay.armed /\ startDelay.left > 0
       \/ isReady /\ sinceStart < StartDelayMs
    /\ startDelay' = IF startDelay.armed
                     THEN [startDelay EXCEPT !.left = IF @ > TickMs THEN @ - TickMs ELSE 0]
                     ELSE startDelay
    /\ sinceStart' = IF isReady
                     THEN (IF sinceStart + TickMs < StartDelayMs THEN sinceStart + TickMs ELSE StartDelayMs)
                     ELSE sinceStart
    /\ UNCHANGED << appState, mounted, isCapturing, intervalRef, intervals, inflight,
                    recent, sessionClean, cameraReadyAtStart, lastApplied, steady >>
    /\ lastFailure' = "none"

\* the callback of setTimeout (lines 202-204)
StartDelayFire ==
    /\ startDelay.armed
    /\ startDelay.left = 0
    /\ intervalRef' = NewTimerId
    /\ intervals' = intervals \cup {[id |-> NewTimerId, cb |-> startDelay.cb]}
    /\ startDelay' = NoTimeout
    /\ lastFailure' = "none"
    /\ UNCHANGED << appState, mounted, isCapturing, inflight, history, lastApplied, steady >>

(* ---- analyzeFrame (lines 84-196) ---- *)

\* the guard of lines 86-88, read by the callback cb
Skips(cb) == ~mounted \/ ~cb.cameraReady \/ isCapturing \/ cb.allChecksPassed

\* the interval t fires: analyzeFrame runs up to its first await
IntervalFire(t) ==
    /\ t \in intervals
    /\ IF Skips(t.cb)
       THEN UNCHANGED vars
       ELSE /\ InFlight < MaxInFlight
            /\ isCapturing' = TRUE
            /\ inflight' = inflight (+) One(Cycle("capture", t.cb.checklist, FALSE))
            /\ lastFailure' = "none"
            /\ UNCHANGED << appState, mounted, intervalRef, startDelay, intervals, history,
                            lastApplied, steady >>

\* mutant of CaptureDone: a failed capture does not release the in-flight flag
CaptureDoneKeepsFlag(c, outcome) ==
    /\ BagIn(c, inflight)
    /\ c.stage = "capture"
    /\ IF outcome = "photo"
       THEN /\ inflight' = (inflight (-) One(c)) (+) One([c EXCEPT !.stage = "detect"])
            /\ lastFailure' = "none"
       ELSE /\ inflight' = inflight (-) One(c)
            /\ lastFailure' = outcome
    /\ UNCHANGED << appState, mounted, isCapturing, intervalRef, startDelay, intervals, history,
                    lastApplied, steady >>

\* takePictureAsync settles (lines 93-103)
CaptureDone(c, outcome) ==
    /\ BagIn(c, inflight)
    /\ c.stage = "capture"
    /\ IF outcome = "photo"
       THEN /\ inflight' = (inflight (-) One(c)) (+) One([c EXCEPT !.stage = "detect"])
            /\ lastFailure' = "none"
            /\ UNCHANGED isCapturing
       ELSE /\ inflight' = inflight (-) One(c)
            /\ isCapturing' = FALSE
            /\ lastFailure' = outcome
    /\ UNCHANGED << appState, mounted, intervalRef, startDelay, intervals, history,
                    lastApplied, steady >>

\* mutant of DetectThrow: a failed detection does not release the in-flight flag
DetectThrowKeepsFlag(c) ==
    /\ BagIn(c, inflight)
    /\ c.stage = "detect"
    /\ inflight' = inflight (-) One(c)
    /\ lastFailure' = "detectThrew"
    /\ UNCHANGED << appState, mounted, isCapturing, intervalRef, startDelay, intervals, history,
                    lastApplied, steady >>

\* FaceDetection.detect rejects (lines 190-195)
DetectThrow(c) ==
    /\ BagIn(c, inflight)
    /\ c.stage = "detect"
    /\ inflight' = inflight (-) One(c)
    /\ isCapturing' = FALSE
    /\ lastFailure' = "detectThrew"
    /\ UNCHANGED << appState, mounted, intervalRef, startDelay, intervals, history,
                    lastApplied, steady >>

\* mutant of NextStreak: a cycle that is not all-pass keeps the streak
NextStreakKeeps(prev, passCount) == IF passCount = 5 THEN prev + 1 ELSE prev

\* setPassStreak(prev => ...) of lines 181-188 applied to the current streak
NextStreak(prev, passCount) == IF passCount = 5 THEN prev + 1 ELSE 0

\* mutant of NextPassed: the flag is set one cycle early
NextPassedEarly(passed, prev, passCount) ==
    IF passCount = 5 /\ prev >= ReadyStreak - 1 THEN TRUE ELSE passed

\* setAllChecksPassed(true) inside the updater of line 183
NextPassed(passed, prev, passCount) == IF passCount = 5 /\ prev >= ReadyStreak THEN TRUE ELSE passed

\* the last three outcomes, newest last
Remember(h, ok) == IF Len(h) < 3 THEN Append(h, ok) ELSE Append(Tail(h), ok)

\* FaceDetection.detect resolves with faces (lines 105-195)
DetectDone(c, faces) ==
    /\ BagIn(c, inflight)
    /\ c.stage = "detect"
    /\ inflight' = inflight (-) One(c)
    /\ isCapturing' = FALSE
    /\ UNCHANGED << mounted, intervalRef, isReady, cameraReady, sessionClean,
                    sinceStart, cameraReadyAtStart, steady >>
    /\ IF mounted
       THEN /\ checklist' = NewChecklist(c.checklist, faces, Photo)
            /\ passStreak' = NextStreak(passStreak, PassCount(faces, Photo))
            /\ allChecksPassed' = NextPassed(allChecksPassed, passStreak, PassCount(faces, Photo))
            /\ RunEffect(intervalRef, intervals)
            /\ recent' = IF c.stale THEN recent
                         ELSE Remember(recent, passedCount(checklist') = 5)
            /\ lastApplied' = Applied(faces)
            /\ lastFailure' = "none"
       ELSE /\ lastFailure' = "none"
            /\ UNCHANGED << checklist, passStreak, allChecksPassed, intervals, startDelay, recent,
                            lastApplied >>

Next ==
    \/ PressStart
    \/ PressReset
    \/ onCameraReady
    \/ Unmount
    \/ Tick
    \/ StartDelayFire
    \/ \E t \in intervals : IntervalFire(t)
    \/ \E c \in BagToSet(inflight), outcome \in {"photo", "nouri", "throw"} : CaptureDone(c, outcome)
    \/ \E c \in BagToSet(inflight) : DetectThrow(c)
    \/ \E c \in BagToSet(inflight), faces \in DetectResults : DetectDone(c, faces)

Spec == Init /\ [][Next]_vars

(* ---- a started session that is left alone ---- *)

\* in a started session with the camera ready, the user holds still: from
\* here on no button is pressed, the component stays mounted, every capture
\* returns a photo and every detection returns one face that passes
GoSteady ==
    /\ ~steady
    /\ mounted /\ isReady /\ cameraReady
    /\ steady' = TRUE
    /\ lastFailure' = "none"
    /\ UNCHANGED << appState, mounted, isCapturing, intervalRef, startDelay, intervals,
                    inflight, history, lastApplied >>

SteadyNext ==
    \/ Tick
    \/ StartDelayFire
    \/ \E t \in intervals : IntervalFire(t)
    \/ \E c \in BagToSet(inflight) : CaptureDone(c, "photo")
    \/ \E c \in BagToSet(inflight) : DetectDone(c, << FaceA >>)

NextLive ==
    \/ ~steady /\ Next
    \/ GoSteady
    \/ steady /\ SteadyNext

\* time passes, an armed timer fires when it is due, and a pending capture
\* or detection settles
Fairness ==
    /\ WF_vars(Tick)
    /\ WF_vars(StartDelayFire)
    /\ WF_vars(\E t \in intervals : IntervalFire(t))
    /\ WF_vars(\E c \in BagToSet(inflight) : CaptureDone(c, "photo"))
    /\ WF_vars(\E c \in BagToSet(inflight) : DetectDone(c, << FaceA >>))

SpecLive == Init /\ [][NextLive]_vars /\ Fairness

(* ---- one evaluation, from the states a session passes through ---- *)

\* a frame of height 300 whose centre is dx/2 pixels right of and dy/2 pixels
\* below the centre of the photo
FrameAt(dx, dy, w) ==
    [left |-> (Photo.width + dx - w) \div 2, top |-> (Photo.height + dy - 300) \div 2,
     width |-> w, height |-> 300]

\* <<dx, dy, width>> of the frames evaluated: sizes at and next to
\* MIN_FACE_SIZE and MAX_FACE_SIZE, offsets next to the tolerances (on these
\* the comparisons of lines 133-144 come out the same in IEEE-754 doubles and
\* in exact arithmetic, also at the vertical offset of exactly 0.32 above the
\* centre), and frames off centre on both axes
Offsets ==
    { << 0, 0, 300 >>, << 0, 0, 50 >>, << 0, 0, 148 >>, << 0, 0, 150 >>,
      << 0, 0, 800 >>, << 0, 0, 802 >>,
      << 438, 0, 300 >>, << 0 - 438, 0, 300 >>, << 442, 0, 300 >>, << 0 - 442, 0, 300 >>,
      << 0, 638, 300 >>, << 0, 0 - 638, 300 >>, << 0, 0 - 640, 300 >>,
      << 0, 642, 300 >>, << 0, 0 - 642, 300 >>,
      << 600, 700, 300 >>, << 700, 600, 300 >>, << 0 - 700, 0 - 600, 300 >>,
      << 0 - 600, 0 - 700, 300 >>, << 700, 700, 300 >>, << 438, 638, 300 >>,
      << 600, 0, 50 >>, << 0 - 600, 0, 802 >> }

GeometryFaces == {[FaceA EXCEPT !.frame = FrameAt(o[1], o[2], o[3])] : o \in Offsets}

\* yaw under both names of the field, at and next to HEAD_YAW_LIMIT, with the
\* eyes open, at EYE_OPEN_THRESHOLD, or absent
YawFaces ==
    {[FaceA EXCEPT !.headEulerAngleY = y, !.yawAngle = None] :
        y \in {Some(17), Some(18), Some(0 - 17), Some(0 - 18), Some(25)}}
    \cup {[FaceA EXCEPT !.yawAngle = y] : y \in {Some(17), Some(18), Some(0 - 18), None}}
    \cup {[FaceA EXCEPT !.headEulerAngleY = Some(0), !.yawAngle = Some(30)]}

EyeValues == {None, Some(40), Some(41)}

EyeFaces ==
    {[FaceA EXCEPT !.leftEyeOpenProbability = l, !.rightEyeOpenProbability = r, !.yawAngle = y] :
        l \in EyeValues, r \in EyeValues, y \in {Some(0), Some(18)}}

SmileFaces ==
    {[FaceA EXCEPT !.smilingProbability = p] : p \in {None, Some(12), Some(13), Some(50), Some(51)}}

RollFaces ==
    {[FaceA EXCEPT !.headEulerAngleZ = z, !.rollAngle = None] :
        z \in {Some(14), Some(15), Some(0 - 15), Some(0 - 14)}}
    \cup {[FaceA EXCEPT !.rollAngle = z] : z \in {Some(15), None}}

\* a face of which the detector reports the bounding box only
FaceBare ==
    [ frame |-> FaceA.frame,
      headEulerAngleY |-> None, yawAngle |-> None,
      headEulerAngleZ |-> None, rollAngle |-> None,
      smilingProbability |-> None,
      leftEyeOpenProbability |-> None, rightEyeOpenProbability |-> None ]

EvalFaces ==
    GeometryFaces \cup YawFaces \cup EyeFaces \cup SmileFaces \cup RollFaces
        \cup {FaceBare, [FaceBare EXCEPT !.smilingProbability = Some(60)]}

\* what detect resolves to: no face, one face, or several faces
EvalResults ==
    {<< >>} \cup {<< f >> : f \in EvalFaces}
        \cup {<< FaceA, FaceC >>, << FaceC, FaceA >>, << FaceA, FaceA, FaceBare >>}

\* the states of a session in which a cycle waits for the detector: before any
\* result, after a cycle without a face, after one and two all-pass cycles,
\* after a cycle with a face that is too small
PriorCycles ==
    { << >>, << << >> >>, << << FaceA >> >>, << << FaceA >>, << FaceA >> >>, << << FaceC >> >> }

Outcomes(h) == [i \in 1..Len(h) |-> PassCount(h[i], Photo) = 5]

InitEval ==
    /\ mounted = TRUE
    /\ isReady = TRUE
    /\ cameraReady = TRUE
    /\ allChecksPassed = FALSE
    /\ isCapturing = TRUE
    /\ startDelay = NoTimeout
    /\ sessionClean = TRUE
    /\ sinceStart = StartDelayMs
    /\ cameraReadyAtStart = TRUE
    /\ lastFailure = "none"
    /\ steady = FALSE
    /\ \E h \in PriorCycles :
          /\ checklist = IF h = << >> THEN InitialChecklist
                         ELSE NewChecklist(InitialChecklist, h[Len(h)], Photo)
          /\ passStreak = TrailingRun(Outcomes(h))
          /\ recent = Outcomes(h)
          /\ lastApplied = IF h = << >> THEN NothingApplied ELSE Applied(h[Len(h)])
          /\ intervalRef = 1 + (Len(h) % 2)
    /\ intervals = {[id |-> intervalRef, cb |-> Closure(checklist, FALSE, TRUE)]}
    /\ inflight = One(Cycle("detect", checklist, FALSE))

NextEval == \E c \in BagToSet(inflight), faces \in EvalResults : DetectDone(c, faces)

SpecEval == InitEval /\ [][NextEval]_vars

(* ---- sanity of the model ---- *)

TypeOK ==
    /\ mounted \in BOOLEAN /\ isReady \in BOOLEAN /\ cameraReady \in BOOLEAN
    /\ allChecksPassed \in BOOLEAN /\ isCapturing \in BOOLEAN
    /\ passStreak \in Nat
    /\ Len(checklist) = 5
    /\ intervalRef \in TimerIds \cup {Null}
    /\ Cardinality(intervals) + (IF startDelay.armed THEN 1 ELSE 0) <= 1

(* ---- helpers of the claims ---- *)

AllPass3 == << TRUE, TRUE, TRUE >>

RECURSIVE TrailingPasses(_)
\* the length of the run of all-pass outcomes at the end of h
TrailingPasses(h) ==
    IF h = << >> \/ ~h[Len(h)] THEN 0 ELSE 1 + TrailingPasses(SubSeq(h, 1, Len(h) - 1))

AllChecking(cl) == \A i \in 1..Len(cl) : cl[i].status = "checking"

TimersArmed == startDelay.armed \/ intervals # {}

\* a step in which an invocation of analyzeFrame passes its guard
CycleStarts == BagCardinality(inflight') > BagCardinality(inflight)

\* a step in which an invocation begun before a reset finishes
StaleCycleEnds ==
    \E c \in BagToSet(inflight) : c.stale /\ inflight' = inflight (-) One(c)

\* a step of resetCheck: the only handler that ends a session
ResetStep == isReady /\ ~isReady'

\* a step of startCheck: the only handler that begins a session
StartStep == ~isReady /\ isReady'

\* the state resetCheck leaves
PostReset ==
    /\ checklist = InitialChecklist
    /\ passStreak = 0
    /\ ~allChecksPassed
    /\ ~isReady
    /\ ~isCapturing
    /\ intervalRef = Null
    /\ ~TimersArmed

(* ---- claims ---- *)

\* C1: in a session that began with no invocation suspended, the ready flag is
\* true exactly when the last three completed cycles were all-pass cycles, the
\* streak is the length of the current run of all-pass cycles, and a cycle that
\* is not all-pass leaves the streak at 0.
C1_ReadyOnThirdConsecutivePass ==
    (isReady /\ sessionClean) =>
        /\ allChecksPassed <=> (recent = AllPass3)
        /\ passStreak = TrailingPasses(recent)
        /\ (recent # << >> /\ ~recent[Len(recent)]) => passStreak = 0

C1_Witness ==
    isReady /\ sessionClean /\ allChecksPassed /\ recent = AllPass3 /\ passStreak = 3

\* C2 (as claimed): at most one invocation of analyzeFrame is suspended in
\* capture or detection at any time.
C2_AtMostOneCycleInFlight == InFlight <= 1

\* C3 (as claimed): when a cycle that was in flight at a reset finishes, the
\* checklist, the streak and the ready flag stay as they were.
C3_StaleResultNeverApplied ==
    [][StaleCycleEnds => UNCHANGED << checklist, passStreak, allChecksPassed >>]_vars

\* C4 (as claimed): the ready flag goes from true to false only in a step of
\* resetCheck.
C4_ReadyLatchedUntilReset ==
    [][(allChecksPassed /\ ~allChecksPassed') => ResetStep]_vars

\* C5 (as claimed): in a session the ready flag is true only after three
\* consecutive all-pass cycles that were started in that session.
C5_ReadyOnlyFromOwnCycles ==
    (isReady /\ allChecksPassed) => recent = AllPass3

\* C6 (as claimed): startCheck leaves all five criteria 'checking', the streak
\* at 0 and the ready flag false.
C6_StartClearsChecklist ==
    [][StartStep => (AllChecking(checklist') /\ passStreak' = 0 /\ ~allChecksPassed')]_vars

\* C7: resetCheck leaves the same state whatever the state before it (initial
\* checklist, streak 0, ready flag false, session not started, in-flight flag
\* cleared, no timer held), and running it again from that state changes none
\* of these.
C7_ResetYieldsIdle ==
    /\ [][ResetStep => PostReset']_vars
    /\ [](PostReset => ENABLED (resetCheck /\ PostReset' /\ UNCHANGED cameraReady))

C7_Witness ==
    PostReset /\ \E c \in BagToSet(inflight) : c.stale /\ c.checklist # InitialChecklist

\* C8 (as claimed): while the ready flag stays true no timer is armed, no cycle
\* starts and no result changes the checklist or the streak.
C8_NothingAppliedOnceReady ==
    [][(allChecksPassed /\ allChecksPassed') =>
          /\ UNCHANGED << checklist, passStreak >>
          /\ ~TimersArmed'
          /\ ~CycleStarts]_vars

\* C9: while no session is started, and after the component is unmounted,
\* neither the timeout nor an interval is armed, and a cycle starts only in a
\* started session of a mounted component.
C9_NoTimerWhileIdle ==
    /\ []((~isReady \/ ~mounted) => ~TimersArmed)
    /\ [][CycleStarts => (isReady /\ mounted)]_vars

C9_Witness == ~mounted /\ isReady /\ cameraReady /\ InFlight > 0 /\ sinceStart = StartDelayMs

\* C10: a cycle starts only when the camera has signalled ready and at least
\* StartDelayMs have passed since startCheck.
C10_FirstCycleWaitsForDelay ==
    [][CycleStarts => (cameraReady /\ isReady /\ sinceStart >= StartDelayMs)]_vars

C10_Witness ==
    /\ cameraReadyAtStart
    /\ sinceStart >= StartDelayMs
    /\ \E c \in BagToSet(inflight) : ~c.stale /\ c.stage = "capture" /\ c.checklist = InitialChecklist

\* C11: a step in which a cycle ends in a capture failure or a detection
\* failure leaves the checklist, the streak, the ready flag and the timers as
\* they were and leaves the in-flight flag released, so that no armed interval
\* would skip its next trigger.
C11_FailedCycleChangesNothing ==
    [][(lastFailure' \in Failures) =>
          /\ UNCHANGED << checklist, passStreak, allChecksPassed, startDelay, intervals, intervalRef >>
          /\ ~isCapturing'
          /\ \A t \in intervals' :
                mounted' /\ t.cb.cameraReady /\ ~t.cb.allChecksPassed /\ ~isCapturing']_vars

C11_Witness ==
    lastFailure \in Failures /\ isReady /\ passStreak = 2 /\ intervals # {} /\ InFlight = 0

\* the detection result of the cycle applied last
NoFaceApplied == lastApplied.any /\ Len(lastApplied.faces) = 0

FaceApplied == lastApplied.any /\ Len(lastApplied.faces) > 0

\* C12: after a cycle in which the detector returned no face, whatever the
\* checklist and the streak were before, the face criterion is 'fail', the four
\* other criteria are 'checking', passedCount is 0 and the streak is 0.
C12_NoFaceResetsChecklist ==
    NoFaceApplied =>
        /\ checklist[1].id = "face" /\ checklist[1].status = "fail"
        /\ \A i \in 2..5 : checklist[i].status = "checking"
        /\ passedCount(checklist) = 0
        /\ passStreak = 0

\* a no-face cycle applied on top of two all-pass cycles
C12_Witness ==
    NoFaceApplied /\ recent = << TRUE, TRUE, FALSE >> /\ InFlight = 0 /\ passStreak = 0

\* C13 as stated: the face criterion is 'pass' exactly when the detector
\* returned exactly one face, and 'fail' for no face and for two or more.
C13_FacePassIffExactlyOne ==
    lastApplied.any =>
        /\ checklist[1].status = "pass" <=> Len(lastApplied.faces) = 1
        /\ checklist[1].status = "fail" <=> Len(lastApplied.faces) # 1

\* C13 amended: the face criterion is 'pass' exactly when the detector
\* returned at least one face (one or several), and 'fail' exactly when it
\* returned none.
C13_FacePassIffSomeFace ==
    lastApplied.any =>
        /\ checklist[1].status = "pass" <=> Len(lastApplied.faces) >= 1
        /\ checklist[1].status = "fail" <=> Len(lastApplied.faces) = 0

\* a result of several faces was applied and the face criterion passed
C13_Witness ==
    lastApplied.any /\ Len(lastApplied.faces) >= 2 /\ checklist[1].status = "pass" /\ InFlight = 0

\* the face the cycle applied last evaluated, and its measures: twice the
\* offset of its centre from the centre of the photo, in pixels, on each axis
TheFace == lastApplied.faces[1]

TwiceDx == 2 * TheFace.frame.left + TheFace.frame.width - Photo.width

TwiceDy == 2 * TheFace.frame.top + TheFace.frame.height - Photo.height

\* offX < centerTolerance and offY < centerTolerance + 0.1
WithinTolerance ==
    /\ 100 * Abs(TwiceDx) < 2 * THRESHOLDS.CENTER_TOLERANCE * Photo.width
    /\ 100 * Abs(TwiceDy) < 2 * (THRESHOLDS.CENTER_TOLERANCE + 10) * Photo.height

\* minFaceSize <= widthRatio <= maxFaceSize
WithinSize ==
    /\ THRESHOLDS.MIN_FACE_SIZE * Photo.width <= 100 * TheFace.frame.width
    /\ 100 * TheFace.frame.width <= THRESHOLDS.MAX_FACE_SIZE * Photo.width

C15_FramingHintPriority ==
    (FaceApplied /\ checklist[2].status = "fail") =>
        /\ checklist[2].detail =
              IF ~WithinTolerance
              THEN IF Abs(TwiceDx) * Photo.height > Abs(TwiceDy) * Photo.width
                   THEN (IF TwiceDx < 0 THEN "Move right" ELSE "Move left")
                   ELSE (IF TwiceDy < 0 THEN "Move down" ELSE "Move up")
              ELSE IF 100 * TheFace.frame.width < THRESHOLDS.MIN_FACE_SIZE * Photo.width
                   THEN "Move closer"
                   ELSE "Move back"
        /\ (WithinTolerance /\ 100 * TheFace.frame.width = 5 * Photo.width)
              => checklist[2].detail = "Move closer"

\* a face both off centre and too small got the hint of its offset
C15_Witness ==
    /\ FaceApplied /\ InFlight = 0
    /\ ~WithinTolerance /\ 100 * TheFace.frame.width < THRESHOLDS.MIN_FACE_SIZE * Photo.width
    /\ checklist[2].status = "fail" /\ checklist[2].detail = "Move left"

\* the values lines 122-126 resolve: an absent field is << >>
Present(field) == field # << >>

TheYaw ==
    IF Present(TheFace.headEulerAngleY) THEN TheFace.headEulerAngleY[1]
    ELSE IF Present(TheFace.yawAngle) THEN TheFace.yawAngle[1] ELSE 0

EyeOpen(field) == ~Present(field) \/ field[1] > THRESHOLDS.EYE_OPEN_THRESHOLD

EyesOpen == EyeOpen(TheFace.leftEyeOpenProbability) /\ EyeOpen(TheFace.rightEyeOpenProbability)

\* C16: with a face present, eyeContact is 'pass' exactly when both eye-open
\* values are strictly above eyeOpenThreshold and |yaw| < headYawLimit; with
\* |yaw| >= headYawLimit it is 'fail' whatever the eyes are; on failure the
\* hint is 'Open eyes' whenever the eye condition failed and 'Look at camera'
\* only when the eyes are open.
C16_EyeContactPassAndHint ==
    FaceApplied =>
        /\ checklist[3].id = "eyeContact"
        /\ checklist[3].status = "pass" <=> (EyesOpen /\ Abs(TheYaw) < THRESHOLDS.HEAD_YAW_LIMIT)
        /\ Abs(TheYaw) >= THRESHOLDS.HEAD_YAW_LIMIT => checklist[3].status = "fail"
        /\ checklist[3].status # "pass" =>
              /\ checklist[3].status = "fail"
              /\ checklist[3].detail = IF ~EyesOpen THEN "Open eyes" ELSE "Look at camera"

\* a face with an eye at the threshold and the yaw at the limit got 'Open eyes'
C16_Witness ==
    /\ FaceApplied /\ InFlight = 0
    /\ ~EyesOpen /\ Abs(TheYaw) >= THRESHOLDS.HEAD_YAW_LIMIT
    /\ checklist[3].status = "fail" /\ checklist[3].detail = "Open eyes"

\* the optional fields that are absent from the face
NoYaw == ~Present(TheFace.headEulerAngleY) /\ ~Present(TheFace.yawAngle)

NoRoll == ~Present(TheFace.headEulerAngleZ) /\ ~Present(TheFace.rollAngle)

NoEyes == ~Present(TheFace.leftEyeOpenProbability) /\ ~Present(TheFace.rightEyeOpenProbability)

\* C17: a face whose optional fields are absent does not fail the cycle:
\* absent yaw and roll count as 0, absent eye-open values as above the
\* threshold, so eyeContact and headPosition are 'pass', and the cycle is a
\* normal evaluation that updates the checklist and the streak.
C17_AbsentFieldsDefault ==
    FaceApplied =>
        /\ (NoYaw /\ EyesOpen) => checklist[3].status = "pass"
        /\ (NoEyes /\ Abs(TheYaw) < THRESHOLDS.HEAD_YAW_LIMIT) => checklist[3].status = "pass"
        /\ NoRoll => checklist[5].status = "pass"
        /\ (NoYaw /\ NoRoll /\ NoEyes) =>
              /\ checklist[1].status = "pass"
              /\ \A i \in 2..5 : checklist[i].status \in {"pass", "fail"}
              /\ passStreak > 0 <=> passedCount(checklist) = 5

\* a face with only a bounding box and a smile completed a streak of three
C17_Witness ==
    /\ FaceApplied /\ InFlight = 0
    /\ NoYaw /\ NoRoll /\ NoEyes
    /\ checklist[3].status = "pass" /\ checklist[5].status = "pass"
    /\ passStreak = 3 /\ allChecksPassed

\* C18: a started session is never stuck: with the camera ready, no stop or
\* reset, and every cycle from some point on an all-pass cycle, the ready flag
\* eventually becomes true under fair timers and fair completion of cycles,
\* whatever captures or detections failed before and however often the timers
\* were re-armed.
C18_SteadySessionBecomesReady == steady ~> allChecksPassed

\* the ready flag was set in a session left alone
C18_Witness == steady /\ mounted /\ isReady /\ cameraReady /\ allChecksPassed /\ InFlight = 0

\* C19: in every reachable state the checklist has one of three shapes: all
\* five criteria 'checking'; face 'fail' and the four others 'checking'; face
\* 'pass' and each of the four others 'pass' or 'fail'.
C19_ChecklistShapes ==
    /\ Len(checklist) = 5
    /\ \/ \A i \in 1..5 : checklist[i].status = "checking"
       \/ /\ checklist[1].status = "fail"
          /\ \A i \in 2..5 : checklist[i].status = "checking"
       \/ /\ checklist[1].status = "pass"
          /\ \A i \in 2..5 : checklist[i].status \in {"pass", "fail"}

\* a cycle without a face was applied right after an all-pass cycle of the
\* same session
C19_Witness ==
    /\ lastApplied = Applied(<< >>)
    /\ Len(recent) >= 2 /\ recent[Len(recent) - 1] /\ ~recent[Len(recent)]
    /\ checklist[1].status = "fail" /\ checklist[5].status = "checking"

\* C20: whenever the ready flag is true the streak is 3 and all five criteria
\* are 'pass'; whenever the streak is positive all five criteria are 'pass';
\* the streak never exceeds 3.
C20_ReadyMeansStreakThree ==
    /\ allChecksPassed => (passStreak = 3 /\ passedCount(checklist) = 5)
    /\ passStreak > 0 => passedCount(checklist) = 5
    /\ passStreak <= 3

====
